---- MODULE Spec2Model ----
(***************************************************************************)
(* Model of the nokode LLM request handler (package handler): one inbound  *)
(* HTTP request is turned into a prompt, sent to the configured provider   *)
(* through a retry wrapper, the provider's reply is decoded, its tool      *)
(* calls are dispatched, and the handler writes one HTTP response.         *)
(***************************************************************************)
EXTENDS Integers, Sequences, FiniteSets, TLC

VARIABLES
    provider,    \* cfg.Provider
    pc,          \* position of the request's goroutine
    round,       \* outbound vendor calls (wrapper invocations) issued so far
    messages,    \* message list of the request body last sent to the vendor
    attempt,     \* loop variable of the retry wrapper
    tries,       \* client.Do calls of the current wrapper invocation
    lastResp,    \* doAPIRequestWithRetry: lastResp
    lastErr,     \* wrapper: lastErr
    slept,       \* time.Sleep durations (seconds) of the current wrapper invocation
    outcomes,    \* outcome class of each client.Do of the current wrapper invocation
    ret,         \* (resp, err) returned by the wrapper
    reply,       \* body of the vendor reply decoded last, until the next request is on the wire
    dispatched,  \* tool calls handed to executeToolCall for the reply decoded last
    webResponse, \* processToolCallsAnthropic: webResponse
    memory,      \* content of memory.md
    dbCalls,     \* statements handed to the database driver
    llm,         \* (response, err) returned by callLLM
    w,           \* http.ResponseWriter of the inbound request
    toolCall,    \* executeToolCall called on its own: tcMap
    toolOut,     \* executeToolCall called on its own: the value returned
    now,             \* the wall clock, in seconds
    lastAPICallTime, \* global: time of the last pass through the rate limiter
    apiCallMutex,    \* global: the goroutine holding the mutex, NoWorker when free
    wpc,             \* per goroutine handling a request: its position in callAnthropic
    wake,            \* per goroutine: the time its time.Sleep ends
    wattempt,        \* per goroutine: the attempt counter of doHTTPRequestWithRetry
    outbound,        \* the two most recent client.Do calls (goroutine, start time, kind)
    memCalls,        \* per goroutine inside tools.UpdateMemory: its arguments and position
    render           \* ReplaceTemplateVars: template, vars, result and the keys not yet ranged over

\* the variables of one request in flight
requestVars == <<provider, pc, round, messages, attempt, tries, lastResp, lastErr, slept,
                 outcomes, ret, reply, dispatched, webResponse, memory, dbCalls, llm, w>>
\* the variables of a call of executeToolCall on its own
toolVars == <<toolCall, toolOut>>
\* the variables of the global rate limiter and of the goroutines passing through it
gateVars == <<now, lastAPICallTime, apiCallMutex, wpc, wake, wattempt, outbound>>
\* the variables a request in flight does not touch
auxVars == <<toolVars, gateVars, memCalls, render>>

vars == <<requestVars, auxVars>>

\* ------------------------------------------------------------------ bounds
\* content blocks / tool calls / stream chunks in one vendor reply
MaxBlocks == 2
\* the round counter saturates here
MaxRounds == 3

\* the clock stops here
MaxClock == 4
\* choices in an LLMResponse handed to extractWebResponse on its own
MaxChoices == 2

\* ------------------------------------------------------- program constants
\* minInterval = 3 * time.Second
MinInterval == 3
HTTPMaxRetries == 3
APIMaxRetries == 5
StatusOK == 200
StatusInternalServerError == 500
StatusTooManyRequests == 429
RateLimitBase == 30

\* --------------------------------------------------- rate limiter at rest
\* goroutines handling inbound requests at the same time
Workers == {1, 2}
\* no goroutine holds the mutex
NoWorker == 0
\* the zero time.Time of lastAPICallTime: time.Since of it exceeds every interval
ZeroTime == 0 - MinInterval

\* the package-level variables as the program starts, every goroutine before its call
\* no goroutine is inside tools.UpdateMemory
NoMemoryCalls == [g \in Workers |-> [pc |-> "none"]]

\* ReplaceTemplateVars is not running
NoRender == [pc |-> "none"]

GateIdle ==
    /\ now = 0
    /\ lastAPICallTime = ZeroTime
    /\ apiCallMutex = NoWorker
    /\ wpc = [g \in Workers |-> "start"]
    /\ wake = [g \in Workers |-> 0]
    /\ wattempt = [g \in Workers |-> 0]
    /\ outbound = <<>>

\* ------------------------------------------------------------ Go helpers
\* strings.Contains
Contains(s, p) ==
    \E i \in 1..(Len(s) - Len(p) + 1) : SubSeq(s, i, i + Len(p) - 1) = p

UpperLetters == "ABCDEFGHIJKLMNOPQRSTUVWXYZ"
LowerLetters == "abcdefghijklmnopqrstuvwxyz"

\* the lower-case letter of each upper-case letter
LowerOf ==
    [c \in {SubSeq(UpperLetters, i, i) : i \in 1..Len(UpperLetters)} |->
        LET i == CHOOSE i \in 1..Len(UpperLetters) : SubSeq(UpperLetters, i, i) = c
        IN SubSeq(LowerLetters, i, i)]

LowerChar(c) == IF c \in DOMAIN LowerOf THEN LowerOf[c] ELSE c

RECURSIVE ToLower(_)
\* strings.ToLower
ToLower(s) ==
    IF Len(s) = 0 THEN s
    ELSE LowerChar(SubSeq(s, 1, 1)) \o ToLower(SubSeq(s, 2, Len(s)))

\* A Go error is the chain of its messages, outermost first; nil is the empty chain.
NilErr == <<>>
\* fmt.Errorf("msg: %w", err)
Wrap(msg, err) == <<msg>> \o err

RECURSIVE ErrorText(_)
\* err.Error()
ErrorText(err) ==
    IF Len(err) = 0 THEN ""
    ELSE IF Len(err) = 1 THEN err[1]
    ELSE err[1] \o ": " \o ErrorText(Tail(err))

\* a *http.Response is modelled by its status code; 0 stands for the nil pointer
NilResp == 0

\* --------------------------------------------------- JSON values (interface{})
\* A decoded JSON value carries its dynamic type, as Go's interface{} does.
JStr(s) == [t |-> "string", s |-> s]
JNum(n) == [t |-> "number", n |-> n]
JArr(a) == [t |-> "array", a |-> a]
JObj(m) == [t |-> "object", m |-> m]
\* a nil map[string]interface{}
NilMap == [k \in {} |-> [t |-> "null"]]

\* m[k].(string) with the ok result dropped: "" when absent or not a string
StringField(m, k) == IF k \in DOMAIN m /\ m[k].t = "string" THEN m[k].s ELSE ""
\* _, ok := m[k].(string)
IsStringField(m, k) == k \in DOMAIN m /\ m[k].t = "string"
\* _, ok := m[k].(float64)
IsNumberField(m, k) == k \in DOMAIN m /\ m[k].t = "number"
\* _, ok := m[k].([]interface{})
IsArrayField(m, k) == k \in DOMAIN m /\ m[k].t = "array"

\* The JSON object texts the model can emit as a string, with their decoding.
JSONTexts ==
    { [text |-> "{\"statusCode\":404,\"body\":\"nf\"}",
       value |-> [statusCode |-> JNum(404), body |-> JStr("nf")]],
      [text |-> "{\"statusCode\":201,\"contentType\":\"application/json\",\"body\":\"[]\"}",
       value |-> [statusCode |-> JNum(201), contentType |-> JStr("application/json"),
                  body |-> JStr("[]")]],
      [text |-> "{\"query\":\"SELECT 1\"}",
       value |-> [query |-> JStr("SELECT 1")]],
      [text |-> "{\"note\":\"x\"}",
       value |-> [note |-> JStr("x")]],
      [text |-> "{\"statusCode\":404,\"body\":\"<html>nf</html>\"}",
       value |-> [statusCode |-> JNum(404), body |-> JStr("<html>nf</html>")]],
      [text |-> "{\"statusCode\":\"404\",\"body\":\"nf\"}",
       value |-> [statusCode |-> JStr("404"), body |-> JStr("nf")]],
      [text |-> "{\"page\":\"<html>x</html>\"}",
       value |-> [page |-> JStr("<html>x</html>")]] }

\* json.Unmarshal([]byte(s), &m) into a map: the error result
UnmarshalFails(s) == \A j \in JSONTexts : j.text # s
\* json.Unmarshal([]byte(s), &m) into a map: the map (nil when it fails)
UnmarshalObject(s) ==
    IF UnmarshalFails(s) THEN NilMap
    ELSE (CHOOSE j \in JSONTexts : j.text = s).value

\* ------------------------------------------------------------------ tools
\* tools.CreateWebResponse
CreateWebResponse(statusCode, contentType, body) ==
    [StatusCode  |-> IF statusCode = 0 THEN 200 ELSE statusCode,
     ContentType |-> contentType,
     Body        |-> body,
     Headers     |-> IF contentType # "" THEN [k \in {"Content-Type"} |-> contentType]
                     ELSE [k \in {} |-> ""]]

\* strings.HasSuffix
HasSuffix(s, suf) == Len(s) >= Len(suf) /\ SubSeq(s, Len(s) - Len(suf) + 1, Len(s)) = suf
\* strings.HasPrefix
HasPrefix(s, pre) == Len(s) >= Len(pre) /\ SubSeq(s, 1, Len(pre)) = pre

\* tools.UpdateMemory: the file content it writes (the write is taken to succeed)
UpdateMemory(existing, content, mode) ==
    IF mode = "append"
    THEN (IF existing # "" /\ ~HasSuffix(existing, "\n") THEN existing \o "\n" ELSE existing)
         \o content
    ELSE content

\* the statements the MySQL server accepts; every other text is a syntax error
ValidSQL ==
    {"SELECT 1", "INSERT INTO contacts(name) VALUES ('Alice')",
     "INSERT INTO contacts(name) VALUES (?)"}

\* the number of placeholders of a statement
Placeholders(query) == Cardinality({i \in 1..Len(query) : SubSeq(query, i, i) = "?"})

\* ExecuteDatabaseQuery: isSelect (the statements of the model are upper case already)
IsSelect(query) ==
    \/ HasPrefix(query, "SELECT") \/ HasPrefix(query, "SHOW") \/ HasPrefix(query, "DESCRIBE")
    \/ HasPrefix(query, "DESC") \/ HasPrefix(query, "EXPLAIN")

\* ExecuteDatabaseQuery: which driver call the statement goes to
DatabasePath(query, params, mode) ==
    IF mode = "exec" /\ Len(params) = 0 THEN "Exec"
    ELSE IF IsSelect(query) THEN "QueryParams" ELSE "ExecParams"

\* tools.ExecuteDatabaseQuery: the call made to the driver and the DatabaseResult
ExecuteDatabaseQuery(query, params, mode) ==
    LET path == DatabasePath(query, params, mode)
        bound == IF path = "Exec" THEN <<>> ELSE params
        ok   == query \in ValidSQL /\ Len(bound) = Placeholders(query)
    IN [call   |-> [query |-> query, path |-> path, bound |-> bound],
        result |-> [kind |-> "database", Success |-> ok,
                    Error |-> IF ok THEN ""
                              ELSE IF query \in ValidSQL /\ Placeholders(query) = 0
                              THEN "sql: expected 0 arguments"
                              ELSE "Error 1064: syntax error",
                    Message |-> IF ok /\ path = "Exec" THEN "Query executed successfully" ELSE ""]]

\* executeToolCall: the argument map taken from tcMap["arguments"]
ToolArgs(tcMap) ==
    IF "arguments" \notin DOMAIN tcMap THEN NilMap
    ELSE IF tcMap["arguments"].t = "string" THEN UnmarshalObject(tcMap["arguments"].s)
    ELSE IF tcMap["arguments"].t = "object" THEN tcMap["arguments"].m
    ELSE NilMap

NilResult == [kind |-> "nil"]

\* executeToolCall: the value returned, and the stores after the call
executeToolCall(tcMap, mem, db) ==
    LET toolName == StringField(tcMap, "name")
        args     == ToolArgs(tcMap)
    IN CASE toolName = "database" ->
              LET query  == StringField(args, "query")
                  mode   == IF IsStringField(args, "mode") THEN args["mode"].s ELSE "query"
                  params == IF IsArrayField(args, "params") THEN args["params"].a ELSE <<>>
                  r      == ExecuteDatabaseQuery(query, params, mode)
              IN [result |-> r.result, memory |-> mem, dbCalls |-> db \cup {r.call}]
         [] toolName = "webResponse" ->
              LET statusCode  == IF IsNumberField(args, "statusCode")
                                 THEN args["statusCode"].n ELSE 200
                  contentType == StringField(args, "contentType")
                  body        == StringField(args, "body")
              IN [result |-> [kind |-> "webResponse",
                              wr |-> CreateWebResponse(statusCode, contentType, body)],
                  memory |-> mem, dbCalls |-> db]
         [] toolName = "updateMemory" ->
              LET content == StringField(args, "content")
                  mode    == StringField(args, "mode")
              IN [result |-> [kind |-> "memory", Success |-> TRUE,
                              Message |-> IF mode = "append"
                                          THEN "Memory appended successfully"
                                          ELSE "Memory rewritten successfully"],
                  memory |-> UpdateMemory(mem, content, mode), dbCalls |-> db]
         [] OTHER -> [result |-> NilResult, memory |-> mem, dbCalls |-> db]

\* ------------------------------------------------------------ retry wrappers
\* the providers whose codecs call doHTTPRequestWithRetry(client, req, 3)
SimpleRetryProviders == {"anthropic", "openai", "qwen"}
\* the providers whose codecs call doAPIRequestWithRetry(client, req, 5)
APIRetryProviders == {"baidu", "spark"}
Providers == SimpleRetryProviders \cup APIRetryProviders \cup {"unsupported"}

\* the maxRetries argument each codec passes
MaxRetriesOf(p) == IF p \in APIRetryProviders THEN APIMaxRetries ELSE HTTPMaxRetries

\* isRetryableError: retryablePatterns
retryablePatterns ==
    {"timeout", "connection refused", "connection reset", "no such host",
     "i/o timeout", "lookup", "temporary failure", "network is unreachable"}

\* isRetryableError
isRetryableError(err) ==
    /\ err # NilErr
    /\ \E pattern \in retryablePatterns : Contains(ToLower(ErrorText(err)), pattern)

\* transport errors client.Do can return
NetErrors ==
    {"Client.Timeout exceeded", "connect: connection refused", "x509: unknown authority"}
\* status codes the vendor endpoint can answer with
Statuses == {200, 400, 429, 500}

\* what one client.Do yields: a transport error, or a response with a status
DoOutcomes ==
    {[err |-> <<e>>, status |-> NilResp] : e \in NetErrors}
        \cup {[err |-> NilErr, status |-> s] : s \in Statuses}

RECURSIVE Itoa(_)
\* a non-negative number as %d prints it
Itoa(n) ==
    IF n < 10 THEN SubSeq("0123456789", n + 1, n + 1)
    ELSE Itoa(n \div 10) \o SubSeq("0123456789", (n % 10) + 1, (n % 10) + 1)

\* variant of the loop condition that lets one more iteration through
LoopRunsOneMore(a, maxRetries) == a <= maxRetries + 1

\* the loop condition of both wrappers: attempt <= maxRetries
LoopContinues(a, maxRetries) == a <= maxRetries

RECURSIVE Pow2(_)
\* 1 << n
Pow2(n) == IF n = 0 THEN 1 ELSE 2 * Pow2(n - 1)

\* doHTTPRequestWithRetry: backoff before retry attempt a (seconds)
HTTPBackoff(a) == Pow2(a - 1)

\* variant of the backoff that has no schedule of its own for rate limits
APIBackoffGeneric(a, last) == Pow2(a - 1)

\* doAPIRequestWithRetry: backoff before retry attempt a (seconds)
APIBackoff(a, last) ==
    IF last # NilResp /\ last = StatusTooManyRequests THEN RateLimitBase * a
    ELSE Pow2(a - 1)

\* variant of the exit below the loop that reports no error
ExhaustedSilently(maxRetries, err) == NilErr

\* fmt.Errorf("request failed after %d attempts: %w", maxRetries+1, lastErr)
Exhausted(maxRetries, err) ==
    Wrap("request failed after " \o Itoa(maxRetries + 1) \o " attempts", err)

\* doHTTPRequestWithRetry: what one loop iteration does with the outcome o of client.Do
\* ("continue": next iteration, or the exit below the loop; "return": return now)
HTTPIteration(o) ==
    IF o.err = NilErr
    THEN [do |-> "return", resp |-> o.status, err |-> NilErr,
          lastResp |-> lastResp, lastErr |-> lastErr]
    ELSE IF isRetryableError(o.err)
    THEN [do |-> "continue", resp |-> NilResp, err |-> NilErr,
          lastResp |-> lastResp, lastErr |-> o.err]
    ELSE [do |-> "return", resp |-> NilResp, err |-> o.err,
          lastResp |-> lastResp, lastErr |-> o.err]

\* variant of the server-error test that takes every error status for one
IsErrorStatus(status) == status >= 400

\* doAPIRequestWithRetry: resp.StatusCode >= 500
IsServerError(status) == status >= 500

\* doAPIRequestWithRetry: what one loop iteration does with the outcome o of client.Do
APIIteration(o) ==
    IF o.err # NilErr
    THEN IF isRetryableError(o.err)
         THEN [do |-> "continue", resp |-> NilResp, err |-> NilErr,
               lastResp |-> lastResp, lastErr |-> o.err]
         ELSE [do |-> "return", resp |-> NilResp, err |-> o.err,
               lastResp |-> lastResp, lastErr |-> o.err]
    ELSE IF o.status = StatusTooManyRequests
    THEN [do |-> "continue", resp |-> NilResp, err |-> NilErr, lastResp |-> o.status,
          lastErr |-> <<"rate limit exceeded: status " \o Itoa(o.status)>>]
    ELSE IF IsServerError(o.status)
    THEN [do |-> "continue", resp |-> NilResp, err |-> NilErr, lastResp |-> o.status,
          lastErr |-> <<"server error: status " \o Itoa(o.status)>>]
    ELSE [do |-> "return", resp |-> o.status, err |-> NilErr,
          lastResp |-> lastResp, lastErr |-> lastErr]

NoRet == [resp |-> NilResp, err |-> NilErr]
\* no reply body is being decoded
NoReply == [none |-> TRUE]

\* One iteration of a wrapper's loop: the sleep before a retry, client.Do, and the
\* handling of its outcome; when the loop condition then fails, the return below it.
WrapperIteration(it, backoff, maxRetries) ==
    /\ slept' = IF attempt > 0 THEN Append(slept, backoff) ELSE slept
    /\ tries' = tries + 1
    /\ lastResp' = it.lastResp
    /\ lastErr' = it.lastErr
    /\ IF it.do = "return"
       THEN /\ ret' = [resp |-> it.resp, err |-> it.err]
            /\ pc' = "return"
            /\ UNCHANGED attempt
       ELSE /\ attempt' = attempt + 1
            /\ IF LoopContinues(attempt + 1, maxRetries)
               THEN pc' = "retry" /\ UNCHANGED ret
               ELSE /\ ret' = [resp |-> it.lastResp, err |-> Exhausted(maxRetries, it.lastErr)]
                    /\ pc' = "return"

\* the outcome class recorded for an attempt: its status, 0 for a transport error
OutcomeClass(o) == o.status

doHTTPRequestWithRetry ==
    /\ pc = "retry"
    /\ UNCHANGED auxVars
    /\ provider \in SimpleRetryProviders
    /\ \E o \in DoOutcomes :
         /\ WrapperIteration(HTTPIteration(o), HTTPBackoff(attempt), MaxRetriesOf(provider))
         /\ outcomes' = Append(outcomes, OutcomeClass(o))
    /\ reply' = NoReply
    /\ UNCHANGED <<provider, round, messages, dispatched, webResponse, memory, dbCalls, llm, w>>

doAPIRequestWithRetry ==
    /\ pc = "retry"
    /\ UNCHANGED auxVars
    /\ provider \in APIRetryProviders
    /\ \E o \in DoOutcomes :
         /\ WrapperIteration(APIIteration(o), APIBackoff(attempt, lastResp),
                             MaxRetriesOf(provider))
         /\ outcomes' = Append(outcomes, OutcomeClass(o))
    /\ reply' = NoReply
    /\ UNCHANGED <<provider, round, messages, dispatched, webResponse, memory, dbCalls, llm, w>>

\* the return statement of either wrapper: its locals are gone, (resp, err) reaches the codec
wrapperReturn ==
    /\ pc = "return"
    /\ UNCHANGED auxVars
    /\ pc' = "decode"
    /\ attempt' = 0
    /\ tries' = 0
    /\ lastResp' = NilResp
    /\ lastErr' = NilErr
    /\ slept' = <<>>
    /\ outcomes' = <<>>
    /\ UNCHANGED <<provider, round, messages, ret, reply, dispatched, webResponse, memory,
                   dbCalls, llm, w>>

\* ------------------------------------------------------- requests and replies
\* utils.ReplaceTemplateVars(promptTemplate, vars), opaque to the codecs
Prompt == "PROMPT"

\* Message.Content and Choice.Message.Content are interface{}: the dynamic type is kept
StringContent(s) == [kind |-> "string", s |-> s]
BlocksContent(b) == [kind |-> "blocks", blocks |-> b]
ResultsContent(r) == [kind |-> "tool_results", results |-> r]
WebResponseContent(wr) == [kind |-> "webResponse", wr |-> wr]
NilContent == [kind |-> "nil"]

UserMessage(prompt) == [role |-> "user", content |-> StringContent(prompt)]

\* Choice{Message: Message{Role, Content}, FinishReason}
Choice(role, content, finish) == [Role |-> role, Content |-> content, FinishReason |-> finish]
\* callLLM's results: (*LLMResponse, error)
LLMOk(choices) == [isNil |-> FALSE, Choices |-> choices, err |-> NilErr]
LLMErr(err) == [isNil |-> TRUE, Choices |-> <<>>, err |-> err]
NoLLM == [isNil |-> TRUE, Choices |-> <<>>, err |-> NilErr]

\* a *tools.WebResponse
NilWR == [isNil |-> TRUE]
RefWR(wr) == [isNil |-> FALSE, v |-> wr]

\* Anthropic content blocks, as decoded into map[string]interface{}
TextBlock(text) == [type |-> JStr("text"), text |-> JStr(text)]
ToolUseBlock(id, name, input) ==
    [type |-> JStr("tool_use"), id |-> JStr(id), name |-> JStr(name), input |-> JObj(input)]

\* the arguments the model supplies with each tool
ToolInput(name) ==
    CASE name = "database" -> [query |-> JStr("SELECT 1")]
      [] name = "webResponse" ->
            [statusCode |-> JNum(302), contentType |-> JStr("text/html"), body |-> JStr("moved"),
             headers |-> JObj([Location |-> JStr("/contacts")])]
      [] name = "updateMemory" -> [content |-> JStr("likes blue"), mode |-> JStr("append")]
      [] OTHER -> [x |-> JStr("y")]

\* tool names the model can call: the three defined ones and a hallucinated one
ToolNames == {"database", "webResponse", "updateMemory", "sendEmail"}
\* texts the model can answer with
Texts == {"hi", "<html>ok</html>"}

\* what a block of an Anthropic reply can be: a text or a call of a tool
BlockShapes == [text : Texts] \cup [tool : ToolNames]

\* the block at position i of a reply; the vendor gives each call of a reply its own id
BlockAt(shape, i) ==
    IF "text" \in DOMAIN shape THEN TextBlock(shape.text)
    ELSE ToolUseBlock("toolu_" \o Itoa(i), shape.tool, ToolInput(shape.tool))

\* the content lists of up to MaxBlocks blocks
ContentLists ==
    UNION { { [i \in 1..n |-> BlockAt(f[i], i)] : f \in [1..n -> BlockShapes] } : n \in 0..MaxBlocks }

\* bodies of an Anthropic HTTP 200: not JSON, JSON without a content list, or a content list
AnthropicBodies ==
    { [json |-> FALSE, hasContent |-> FALSE, content |-> <<>>],
      [json |-> TRUE, hasContent |-> FALSE, content |-> <<>>] }
        \cup { [json |-> TRUE, hasContent |-> TRUE, content |-> c] : c \in ContentLists }

\* itemType == "tool_use"
IsToolUse(item) == IsStringField(item, "type") /\ item["type"].s = "tool_use"
\* itemType == "text" with a string text
IsText(item) ==
    IsStringField(item, "type") /\ item["type"].s = "text" /\ IsStringField(item, "text")

\* callAnthropic / processToolCallsAnthropic: hasToolUse
HasToolUse(content) == \E i \in 1..Len(content) : IsToolUse(content[i])

RECURSIVE TextOf(_)
\* the strings.Builder loop over the text blocks
TextOf(content) ==
    IF content = <<>> THEN ""
    ELSE (IF IsText(Head(content)) THEN Head(content)["text"].s ELSE "") \o TextOf(Tail(content))

\* variant of the tool result that does not carry the id of its call
ToolResultWithoutId(toolID, result) ==
    [type |-> "tool_result", tool_use_id |-> "", content |-> [marshalled |-> result]]

\* json.Marshal(result) as the content of a tool_result
ToolResult(toolID, result) ==
    [type |-> "tool_result", tool_use_id |-> toolID, content |-> [marshalled |-> result]]

RECURSIVE RunTools(_, _)
\* processToolCallsAnthropic: the loop that executes the tool_use blocks of a reply
RunTools(content, st) ==
    IF content = <<>> THEN st
    ELSE LET item == Head(content) IN
         IF IsToolUse(item)
         THEN LET toolID == StringField(item, "id")
                  r      == executeToolCall(item, st.memory, st.dbCalls)
                  wr     == IF r.result.kind = "webResponse" THEN RefWR(r.result.wr)
                            ELSE st.webResponse
                  next   == [memory      |-> r.memory,
                             dbCalls     |-> r.dbCalls,
                             webResponse |-> wr,
                             toolResults |-> Append(st.toolResults, ToolResult(toolID, r.result)),
                             dispatched  |-> Append(st.dispatched,
                                                    [id |-> toolID, name |-> StringField(item, "name")])]
              IN RunTools(Tail(content), next)
         ELSE RunTools(Tail(content), st)

\* variant of the webResponse test under which the loop never returns early
NeverShortCircuits(wr) == FALSE

\* processToolCallsAnthropic: if webResponse != nil, return it immediately
ShortCircuits(wr) == ~wr.isNil

\* variant of the follow-up request that leaves the tool results out
FollowUpWithoutResults(content, toolResults) ==
    <<UserMessage(Prompt), [role |-> "assistant", content |-> BlocksContent(content)]>>

\* processToolCallsAnthropic: the message list of the follow-up request
AnthropicFollowUp(content, toolResults) ==
    <<UserMessage(Prompt), [role |-> "assistant", content |-> BlocksContent(content)]>>
        \o (IF Len(toolResults) > 0
            THEN <<[role |-> "user", content |-> ResultsContent(toolResults)]>>
            ELSE <<>>)

\* a new wrapper invocation for the request just built
StartWrapper ==
    /\ attempt' = 0
    /\ tries' = 0
    /\ lastResp' = NilResp
    /\ lastErr' = NilErr
    /\ slept' = <<>>
    /\ outcomes' = <<>>
    /\ ret' = NoRet
    /\ round' = IF round < MaxRounds THEN round + 1 ELSE round

\* the codec returns to HandleLLMRequest
Return(result) ==
    /\ llm' = result
    /\ pc' = "respond"
    /\ UNCHANGED <<round, messages, attempt, tries, lastResp, lastErr, slept, outcomes, ret>>

\* The error a codec builds from a reply that is not a 200 carries the reply's body; the
\* body of such a reply is rendered here by its status code.
\* callAnthropic after its wrapper call returned, and processToolCallsAnthropic for
\* each reply that holds a tool_use block (the code after the wrapper call is the same
\* in both)
callAnthropic ==
    /\ pc = "decode"
    /\ UNCHANGED auxVars
    /\ provider = "anthropic"
    /\ UNCHANGED <<provider, w>>
    /\ IF ret.err # NilErr
       THEN /\ Return(LLMErr(Wrap("network error", ret.err)))
            /\ UNCHANGED <<reply, dispatched, webResponse, memory, dbCalls>>
       ELSE IF ret.resp # StatusOK
       THEN /\ Return(LLMErr(<<"Anthropic API error: " \o Itoa(ret.resp)>>))
            /\ UNCHANGED <<reply, dispatched, webResponse, memory, dbCalls>>
       ELSE \E body \in AnthropicBodies :
            /\ reply' = body
            /\ IF ~body.json
               THEN /\ Return(LLMErr(<<"invalid character">>))
                    /\ dispatched' = <<>>
                    /\ UNCHANGED <<webResponse, memory, dbCalls>>
               ELSE IF body.hasContent /\ HasToolUse(body.content)
               THEN LET st == RunTools(body.content,
                                       [memory |-> memory, dbCalls |-> dbCalls,
                                        webResponse |-> NilWR, toolResults |-> <<>>,
                                        dispatched |-> <<>>])
                    IN /\ memory' = st.memory
                       /\ dbCalls' = st.dbCalls
                       /\ dispatched' = st.dispatched
                       /\ webResponse' = st.webResponse
                       /\ IF ShortCircuits(st.webResponse)
                          THEN Return(LLMOk(<<Choice("assistant",
                                                     WebResponseContent(st.webResponse.v), "")>>))
                          ELSE /\ messages' = AnthropicFollowUp(body.content, st.toolResults)
                               /\ StartWrapper
                               /\ pc' = "retry"
                               /\ UNCHANGED llm
               ELSE /\ Return(LLMOk(IF body.hasContent
                                    THEN <<Choice("assistant",
                                                  StringContent(TextOf(body.content)), "")>>
                                    ELSE <<>>))
                    /\ dispatched' = <<>>
                    /\ UNCHANGED <<webResponse, memory, dbCalls>>

\* ------------------------------------------------------------ OpenAI and Qwen
\* a tool call of an OpenAI-format reply: arguments are a JSON text
OpenAIToolCall(id, name) ==
    [id |-> id, type |-> "function", name |-> name,
     arguments |-> IF name = "webResponse" THEN "{\"statusCode\":404,\"body\":\"nf\"}"
                   ELSE IF name = "database" THEN "{\"query\":\"SELECT 1\"}"
                   ELSE "{\"note\":\"x\"}"]

\* the tool_calls lists of up to MaxBlocks calls
ToolCallLists ==
    UNION { { [i \in 1..n |-> OpenAIToolCall("call_" \o Itoa(i), f[i])] : f \in [1..n -> ToolNames] }
            : n \in 0..MaxBlocks }

\* message.content of a reply: null or a text
ReplyContents == {NilContent} \cup {StringContent(t) : t \in Texts}

\* bodies of an OpenAI-format HTTP 200: not JSON, or the one choice the request asks for.
\* finish_reason is "tool_calls" only with tool calls.
OpenAIBodies ==
    { [json |-> FALSE, content |-> NilContent, finish |-> "", tool_calls |-> <<>>] }
        \cup { b \in [json : {TRUE}, content : ReplyContents, finish : {"stop", "tool_calls"},
                      tool_calls : ToolCallLists] :
               b.finish = "tool_calls" => Len(b.tool_calls) > 0 }

\* callOpenAI: json.Unmarshal(body, &llmResp); Message has the fields role and content only
DecodeOpenAI(body) == <<Choice("assistant", body.content, body.finish)>>

\* callQwen: the conversion of openai.ChatCompletionResponse into LLMResponse
DecodeQwen(body) ==
    <<Choice("assistant",
             IF body.content.kind = "string" THEN body.content ELSE StringContent(""),
             IF Len(body.tool_calls) > 0 THEN "tool_calls" ELSE body.finish)>>

\* variant of the follow-up test that asks for a follow-up after every reply
AlwaysNeedsToolCalls(choices) == Len(choices) > 0

\* choice.FinishReason == "tool_calls" for some choice
NeedsToolCalls(choices) == \E i \in 1..Len(choices) : choices[i].FinishReason = "tool_calls"

\* processToolCallsOpenAI: the message list of the follow-up request
OpenAIFollowUp(choices) ==
    <<UserMessage(Prompt)>>
        \o (IF Len(choices) > 0
            THEN <<[role |-> "assistant", content |-> choices[1].Content]>>
            ELSE <<>>)

\* processToolCallsQwen: the message list of the follow-up request
QwenFollowUp(choices) ==
    <<UserMessage(Prompt)>>
        \o (IF Len(choices) > 0
            THEN IF choices[1].Content.kind = "string" /\ choices[1].Content.s # ""
                 THEN <<[role |-> "assistant", content |-> choices[1].Content]>>
                 ELSE <<[role |-> "assistant"]>>
            ELSE <<>>)

\* callOpenAI / callQwen after the wrapper call returned, and processToolCallsOpenAI /
\* processToolCallsQwen for each reply with finish reason tool_calls
OpenAIFormatReply(name) ==
    LET Decode(body) == IF provider = "qwen" THEN DecodeQwen(body) ELSE DecodeOpenAI(body)
        FollowUp(choices) ==
            IF provider = "qwen" THEN QwenFollowUp(choices) ELSE OpenAIFollowUp(choices)
    IN
    /\ pc = "decode"
    /\ UNCHANGED auxVars
    /\ UNCHANGED <<provider, w, webResponse, memory, dbCalls>>
    /\ IF ret.err # NilErr
       THEN Return(LLMErr(Wrap("network error", ret.err))) /\ UNCHANGED <<reply, dispatched>>
       ELSE IF ret.resp # StatusOK
       THEN /\ Return(LLMErr(<<name \o " API error: " \o Itoa(ret.resp)>>))
            /\ UNCHANGED <<reply, dispatched>>
       ELSE \E body \in OpenAIBodies :
            /\ reply' = body
            /\ dispatched' = <<>>
            /\ IF ~body.json
               THEN Return(LLMErr(<<"invalid character">>))
               ELSE IF NeedsToolCalls(Decode(body))
               THEN /\ messages' = FollowUp(Decode(body))
                    /\ StartWrapper
                    /\ pc' = "retry"
                    /\ UNCHANGED llm
               ELSE Return(LLMOk(Decode(body)))

callOpenAI == provider = "openai" /\ OpenAIFormatReply("OpenAI")

callQwen == provider = "qwen" /\ OpenAIFormatReply("Qwen")

\* ------------------------------------------------------------------- Spark
\* the data chunks of a Spark SSE stream
SparkChunks ==
    { [kind |-> "invalid"],
      [kind |-> "content", content |-> "hi"],
      [kind |-> "content", content |-> "<html>ok</html>"],
      [kind |-> "reasoning", reasoning |-> "thinking"],
      [kind |-> "tool_calls", name |-> "webResponse",
       arguments |-> "{\"statusCode\":404,\"body\":\"nf\"}"],
      [kind |-> "tool_calls", name |-> "webResponse", arguments |-> "{\"statusCode\":4"],
      [kind |-> "tool_calls", name |-> "database", arguments |-> "{\"query\":\"SELECT 1\"}"],
      [kind |-> "done"] }

\* the streams of up to MaxBlocks chunks, ended by EOF or by a read error
SparkStreams ==
    UNION { [chunks : [1..n -> SparkChunks], readError : BOOLEAN] : n \in 0..MaxBlocks }

SparkFallbackContent ==
    "<html><body><h1>Contact Manager</h1><p>AI response processing completed but no valid content generated.</p><a href=\"/\">Home</a></body></html>"

\* what callSpark returns, and the WebResponse it built on the way (nil if none)
SparkResult(result, wr) == [llm |-> result, wr |-> wr]

RECURSIVE SparkRead(_, _, _, _)
\* callSpark: the loop over the lines of the stream, and the returns below it
SparkRead(chunks, readError, fullContent, toolCallsFound) ==
    IF chunks = <<>>
    THEN IF readError
         THEN SparkResult(LLMErr(Wrap("failed to read stream", <<"unexpected EOF">>)), NilWR)
         ELSE IF ~toolCallsFound /\ Len(fullContent) > 0
         THEN SparkResult(LLMOk(<<Choice("assistant", StringContent(fullContent), "stop")>>), NilWR)
         ELSE SparkResult(LLMOk(<<Choice("assistant", StringContent(SparkFallbackContent),
                                         "stop")>>), NilWR)
    ELSE LET c == Head(chunks) IN
         CASE c.kind = "done" -> SparkRead(<<>>, FALSE, fullContent, toolCallsFound)
           [] c.kind = "invalid" -> SparkRead(Tail(chunks), readError, fullContent, toolCallsFound)
           [] c.kind = "tool_calls" ->
                IF c.name = "webResponse" /\ ~UnmarshalFails(c.arguments)
                THEN LET args == UnmarshalObject(c.arguments)
                         webResp == CreateWebResponse(
                                        IF IsNumberField(args, "statusCode")
                                        THEN args["statusCode"].n ELSE 200,
                                        IF IsStringField(args, "contentType")
                                        THEN args["contentType"].s ELSE "text/html",
                                        StringField(args, "body"))
                     IN SparkResult(LLMOk(<<Choice("assistant", StringContent(webResp.Body),
                                                   "tool_calls")>>), RefWR(webResp))
                ELSE SparkRead(Tail(chunks), readError, fullContent, TRUE)
           [] c.kind = "reasoning" ->
                SparkRead(Tail(chunks), readError, fullContent \o c.reasoning \o " ", toolCallsFound)
           [] OTHER ->
                SparkRead(Tail(chunks), readError, fullContent \o c.content, toolCallsFound)

\* callSpark after its wrapper call returned
callSpark ==
    /\ pc = "decode"
    /\ UNCHANGED auxVars
    /\ provider = "spark"
    /\ UNCHANGED <<provider, w, memory, dbCalls>>
    /\ IF ret.err # NilErr
       THEN /\ Return(LLMErr(Wrap("network or rate limit error", ret.err)))
            /\ UNCHANGED <<reply, dispatched, webResponse>>
       ELSE IF ret.resp # StatusOK
       THEN /\ Return(LLMErr(<<"Spark API error: status " \o Itoa(ret.resp)>>))
            /\ UNCHANGED <<reply, dispatched, webResponse>>
       ELSE \E body \in SparkStreams :
            LET r == SparkRead(body.chunks, body.readError, "", FALSE) IN
            /\ reply' = body
            /\ dispatched' = <<>>
            /\ webResponse' = r.wr
            /\ Return(r.llm)

\* ------------------------------------------------------------------- Baidu
\* texts a Baidu result can hold: those of the other vendors, and a JSON object that
\* describes a response
BaiduTexts ==
    Texts \cup {"{\"statusCode\":201,\"contentType\":\"application/json\",\"body\":\"[]\"}"}

\* bodies of a Baidu HTTP 200: not JSON, or an object with or without result / function_call
BaiduBodies ==
    { [json |-> FALSE, hasResult |-> FALSE, result |-> "", function_call |-> FALSE] }
        \cup [json : {TRUE}, hasResult : {TRUE}, result : BaiduTexts, function_call : BOOLEAN]
        \cup [json : {TRUE}, hasResult : {FALSE}, result : {""}, function_call : BOOLEAN]

\* callBaidu: the conversion of the reply into LLMResponse
DecodeBaidu(body) ==
    IF body.hasResult
    THEN <<Choice("assistant", StringContent(body.result),
                  IF body.function_call THEN "function_call" ELSE "stop")>>
    ELSE <<>>

\* processToolCallsBaidu
processToolCallsBaidu(choices) == LLMOk(choices)

\* callBaidu after its wrapper call returned
callBaidu ==
    /\ pc = "decode"
    /\ UNCHANGED auxVars
    /\ provider = "baidu"
    /\ UNCHANGED <<provider, w, webResponse, memory, dbCalls>>
    /\ IF ret.err # NilErr
       THEN /\ Return(LLMErr(Wrap("network or rate limit error", ret.err)))
            /\ UNCHANGED <<reply, dispatched>>
       ELSE IF ret.resp # StatusOK
       THEN /\ Return(LLMErr(<<"Baidu API error: status " \o Itoa(ret.resp)>>))
            /\ UNCHANGED <<reply, dispatched>>
       ELSE \E body \in BaiduBodies :
            /\ reply' = body
            /\ dispatched' = <<>>
            /\ IF ~body.json
               THEN Return(LLMErr(Wrap("failed to unmarshal response", <<"invalid character">>)))
               ELSE IF \E i \in 1..Len(DecodeBaidu(body)) :
                          DecodeBaidu(body)[i].FinishReason = "function_call"
               THEN Return(processToolCallsBaidu(DecodeBaidu(body)))
               ELSE Return(LLMOk(DecodeBaidu(body)))

\* ------------------------------------------------------- HandleLLMRequest
RECURSIVE ExtractHTMLFirst(_)
\* variant of extractWebResponse that looks for the HTML marker before it parses
ExtractHTMLFirst(choices) ==
    IF choices = <<>> THEN NilWR
    ELSE LET choice == Head(choices) IN
         IF choice.Role = "assistant" /\ choice.Content.kind = "string"
         THEN LET contentStr == choice.Content.s
                  result     == UnmarshalObject(contentStr)
              IN IF Contains(contentStr, "<html") \/ Contains(contentStr, "<!DOCTYPE html")
                 THEN RefWR(CreateWebResponse(200, "text/html", contentStr))
                 ELSE IF ~UnmarshalFails(contentStr) /\ IsNumberField(result, "statusCode")
                 THEN RefWR(CreateWebResponse(result["statusCode"].n,
                                              StringField(result, "contentType"),
                                              StringField(result, "body")))
                 ELSE ExtractHTMLFirst(Tail(choices))
         ELSE ExtractHTMLFirst(Tail(choices))

RECURSIVE extractWebResponse(_)
\* extractWebResponse, over response.Choices
extractWebResponse(choices) ==
    IF choices = <<>> THEN NilWR
    ELSE LET choice == Head(choices) IN
         IF choice.Role = "assistant" /\ choice.Content.kind = "string"
         THEN LET contentStr == choice.Content.s
                  result     == UnmarshalObject(contentStr)
              IN IF ~UnmarshalFails(contentStr) /\ IsNumberField(result, "statusCode")
                 THEN RefWR(CreateWebResponse(result["statusCode"].n,
                                              StringField(result, "contentType"),
                                              StringField(result, "body")))
                 ELSE IF Contains(contentStr, "<html") \/ Contains(contentStr, "<!DOCTYPE html")
                 THEN RefWR(CreateWebResponse(200, "text/html", contentStr))
                 ELSE extractWebResponse(Tail(choices))
         ELSE extractWebResponse(Tail(choices))

\* an http.ResponseWriter: the header map of the handler, and what went to the client
NoHeaders == [k \in {} |-> ""]
NewWriter == [header |-> NoHeaders, wroteHeader |-> FALSE, status |-> 0,
              sent |-> NoHeaders, body |-> ""]

\* w.Header().Set(key, value)
HeaderSet(rw, key, value) ==
    [rw EXCEPT !.header = [k \in DOMAIN @ \cup {key} |-> IF k = key THEN value ELSE @[k]]]

\* w.WriteHeader(code): the status line and a snapshot of the header map are committed
WriteHeader(rw, code) ==
    IF rw.wroteHeader THEN rw
    ELSE [rw EXCEPT !.wroteHeader = TRUE, !.status = code, !.sent = rw.header]

\* http.DetectContentType on the first bytes written, for the bodies of the model (whose
\* tags are in lower case)
DetectContentType(body) ==
    IF \/ HasPrefix(body, "<html") \/ HasPrefix(body, "<!doctype html")
       \/ HasPrefix(body, "<!DOCTYPE html") \/ HasPrefix(body, "<h1")
    THEN "text/html; charset=utf-8"
    ELSE "text/plain; charset=utf-8"

\* w.Write(body): commits status 200 if no status is committed yet; a response committed
\* without a Content-Type gets the type sniffed from the first bytes written
Write(rw, body) ==
    LET r == WriteHeader(rw, StatusOK)
        t == IF r.body = "" /\ body # "" /\ "Content-Type" \notin DOMAIN r.sent
             THEN [r EXCEPT !.sent = [k \in DOMAIN @ \cup {"Content-Type"} |->
                                         IF k = "Content-Type" THEN DetectContentType(body)
                                         ELSE @[k]]]
             ELSE r
    IN [t EXCEPT !.body = @ \o body]

RECURSIVE SetHeaders(_, _, _)
\* for key, value := range webResponse.Headers { w.Header().Set(key, value) }
SetHeaders(rw, headers, keys) ==
    IF keys = {} THEN rw
    ELSE LET k == CHOOSE k \in keys : TRUE
         IN SetHeaders(HeaderSet(rw, k, headers[k]), headers, keys \ {k})

\* HandleLLMRequest: the error page of a failed LLM call
SendError(rw, err) ==
    Write(WriteHeader(HeaderSet(rw, "Content-Type", "text/html"), StatusInternalServerError),
          "<h1>Server Error</h1>" \o ErrorText(err))

\* HandleLLMRequest: the webResponse branch
SendWebResponse(rw, wr) ==
    Write(SetHeaders(WriteHeader(rw, wr.StatusCode), wr.Headers, DOMAIN wr.Headers), wr.Body)

\* variant of the fallback branch that answers with a failure
SendFallbackAsFailure(rw, page) ==
    Write(WriteHeader(HeaderSet(rw, "Content-Type", "text/html; charset=utf-8"),
                      StatusInternalServerError), page)

\* HandleLLMRequest: the fallback branch
SendFallback(rw, page) ==
    Write(WriteHeader(HeaderSet(rw, "Content-Type", "text/html; charset=utf-8"), StatusOK), page)

FallbackQuery == "SELECT title, author, dynasty, content FROM poems ORDER BY RAND() LIMIT 1"

\* generateFallbackPoemPage: the page with a stored poem, or the fixed one
FallbackPages == {"<html>stored poem</html>", "<html>fixed poem</html>"}

\* HandleLLMRequest once callLLM has returned. callOpenAI and callQwen return no choice
\* with finish reason tool_calls, so needsToolProcessing is false whenever it is computed.
HandleLLMRequest ==
    /\ pc = "respond"
    /\ UNCHANGED auxVars
    /\ pc' = "done"
    /\ IF llm.err # NilErr
       THEN w' = SendError(w, llm.err) /\ UNCHANGED dbCalls
       ELSE LET wr == extractWebResponse(llm.Choices) IN
            IF ~wr.isNil
            THEN w' = SendWebResponse(w, wr.v) /\ UNCHANGED dbCalls
            ELSE /\ \E page \in FallbackPages : w' = SendFallback(w, page)
                 /\ dbCalls' = dbCalls \cup
                        {ExecuteDatabaseQuery(FallbackQuery, <<>>, "select").call}
    /\ UNCHANGED <<provider, round, messages, attempt, tries, lastResp, lastErr, slept,
                   outcomes, ret, reply, dispatched, webResponse, memory, llm>>

\* ------------------------------------------------------------------ callLLM
\* callSpark: the messages of its request
SparkMessages ==
    <<[role |-> "system", content |-> StringContent("You are a contact manager.")],
      UserMessage(Prompt)>>

\* callBaidu: how the request is authenticated: a configured token, an OAuth token
\* fetched by getBaiduAccessToken (which can fail), or nothing configured
BaiduAuth == {"token", "oauth", "oauth failed", "none"}

\* callLLM and the head of the codec it selects, up to the call of the retry wrapper
callLLM ==
    /\ pc = "callLLM"
    /\ UNCHANGED auxVars
    /\ UNCHANGED <<provider, reply, dispatched, webResponse, memory, dbCalls, w>>
    /\ IF provider \notin SimpleRetryProviders \cup APIRetryProviders
       THEN Return(LLMErr(<<"unsupported provider: " \o provider>>))
       ELSE \E auth \in IF provider = "baidu" THEN BaiduAuth ELSE {"token"} :
            IF auth = "oauth failed"
            THEN Return(LLMErr(Wrap("failed to get baidu access token", <<"failed to get token">>)))
            ELSE IF auth = "none"
            THEN Return(LLMErr(<<"baidu authentication not configured">>))
            ELSE /\ messages' = IF provider = "spark" THEN SparkMessages
                                ELSE <<UserMessage(Prompt)>>
                 /\ StartWrapper
                 /\ pc' = "retry"
                 /\ UNCHANGED llm

\* ------------------------------------------------------------ specification
Init ==
    /\ provider \in Providers
    /\ pc = "callLLM"
    /\ round = 0
    /\ messages = <<>>
    /\ attempt = 0
    /\ tries = 0
    /\ lastResp = NilResp
    /\ lastErr = NilErr
    /\ slept = <<>>
    /\ outcomes = <<>>
    /\ ret = NoRet
    /\ reply = NoReply
    /\ dispatched = <<>>
    /\ webResponse = NilWR
    /\ memory = "note"
    /\ dbCalls = {}
    /\ llm = NoLLM
    /\ w = NewWriter
    /\ toolCall = NilMap
    /\ toolOut = NilResult
    /\ GateIdle
    /\ memCalls = NoMemoryCalls
    /\ render = NoRender

Next ==
    \/ callLLM
    \/ doHTTPRequestWithRetry
    \/ doAPIRequestWithRetry
    \/ wrapperReturn
    \/ callAnthropic
    \/ callOpenAI
    \/ callQwen
    \/ callSpark
    \/ callBaidu
    \/ HandleLLMRequest

Spec == Init /\ [][Next]_vars

\* the request's goroutine keeps running until HandleLLMRequest has returned
FairSpec == Spec /\ WF_vars(Next)

\* ------------------------------------------------------------- properties
Last(s) == s[Len(s)]

IsPrefix(s, t) == Len(s) <= Len(t) /\ SubSeq(t, 1, Len(s)) = s

\* the orchestrator has left the loop: callLLM has returned, or the response is written
Terminal == pc \in {"respond", "done"}

\* the tool loop has just built its follow-up request from the reply of the round before
FollowUpBuilt == pc = "retry" /\ tries = 0 /\ reply # NoReply

RECURSIVE ToolUses(_)
\* the calls (id, name) of an Anthropic content list, in order
ToolUses(content) ==
    IF content = <<>> THEN <<>>
    ELSE (IF IsToolUse(Head(content))
          THEN <<[id |-> StringField(Head(content), "id"),
                  name |-> StringField(Head(content), "name")]>>
          ELSE <<>>) \o ToolUses(Tail(content))

\* the tool calls (id, name) the model emitted in the reply just decoded, in order
EmittedCalls ==
    IF reply = NoReply THEN <<>>
    ELSE IF provider = "anthropic" THEN ToolUses(reply.content)
    ELSE IF provider \in {"openai", "qwen"}
    THEN [i \in 1..Len(reply.tool_calls) |->
              [id |-> reply.tool_calls[i].id, name |-> reply.tool_calls[i].name]]
    ELSE <<>>

Count(seq, x) == Cardinality({i \in 1..Len(seq) : seq[i] = x})

\* the tool_use_ids of the tool results carried by the message list
ResultIds(msgs) ==
    UNION { {msgs[i].content.results[j].tool_use_id : j \in 1..Len(msgs[i].content.results)}
            : i \in {k \in 1..Len(msgs) : "content" \in DOMAIN msgs[k]
                                          /\ msgs[k].content.kind = "tool_results"} }

\* C1: whenever the webResponse tool fires during the Anthropic tool loop, the HTTP
\* response written to the client carries exactly the status code and the body of the
\* WebResponse the dispatcher built, and the fallback page is not sent.
C1_TerminalResponseWritten ==
    (provider = "anthropic" /\ pc = "done" /\ ~webResponse.isNil)
        => /\ w.status = webResponse.v.StatusCode
           /\ w.body = webResponse.v.Body
           /\ w.body \notin FallbackPages

C3_NothingDispatchedAfterWebResponse ==
    \A i \in 1..Len(dispatched) : dispatched[i].name = "webResponse" => i = Len(dispatched)

\* C4: for Anthropic, OpenAI and Qwen, when the follow-up request of a round without a
\* webResponse call has been built, each tool call the model emitted in that round has
\* been dispatched exactly once and its tool result is in the message list of the request.
C4_EachToolCallDispatchedOnce ==
    (/\ FollowUpBuilt
     /\ provider \in {"anthropic", "openai", "qwen"}
     /\ \A i \in 1..Len(EmittedCalls) : EmittedCalls[i].name # "webResponse")
        => \A i \in 1..Len(EmittedCalls) :
              /\ Count(dispatched, EmittedCalls[i]) = 1
              /\ EmittedCalls[i].id \in ResultIds(messages)

\* C5: for every sequence of vendor responses the orchestrator reaches Terminal.
C5_LoopTerminates == <>Terminal

RECURSIVE StreamText(_)
\* the content deltas of a Spark stream up to [DONE], concatenated
StreamText(chunks) ==
    IF chunks = <<>> \/ Head(chunks).kind = "done" THEN ""
    ELSE (IF Head(chunks).kind = "content" THEN Head(chunks).content ELSE "")
             \o StreamText(Tail(chunks))

StreamHas(chunks, kind) == \E i \in 1..Len(chunks) : chunks[i].kind = kind

\* the reply just decoded is a complete, parsable vendor reply that holds no tool call
ZeroToolCallReply ==
    /\ reply # NoReply
    /\ CASE provider = "anthropic" -> reply.json /\ ~HasToolUse(reply.content)
         [] provider \in {"openai", "qwen"} -> reply.json /\ reply.tool_calls = <<>>
         [] provider = "baidu" -> reply.json /\ ~reply.function_call
         [] provider = "spark" -> ~reply.readError /\ ~StreamHas(reply.chunks, "tool_calls")
         [] OTHER -> FALSE

\* the text that reply carries ("" if it carries none)
ReplyText ==
    CASE provider = "anthropic" -> TextOf(reply.content)
      [] provider \in {"openai", "qwen"} ->
            IF reply.content.kind = "string" THEN reply.content.s ELSE ""
      [] provider = "baidu" -> reply.result
      [] provider = "spark" -> StreamText(reply.chunks)
      [] OTHER -> ""

\* a Spark stream whose text is made of content deltas only, and is not empty
TextStream == ~StreamHas(reply.chunks, "reasoning") /\ StreamText(reply.chunks) # ""

\* the text callLLM returned ("" if it returned none)
ReturnedText ==
    IF llm.Choices = <<>> THEN ""
    ELSE IF llm.Choices[1].Content.kind = "string" THEN llm.Choices[1].Content.s
    ELSE ""

C7_ConversationAppendOnly == [][IsPrefix(messages, messages')]_vars

\* C8: one call of the simple wrapper performs at most 3 attempts and one call of the
\* rate-limit-aware wrapper at most 5 attempts.
C8_AttemptCeilings == tries <= MaxRetriesOf(provider)

\* C8 (amended): one call of the simple wrapper performs at most 4 attempts (the first
\* and up to 3 retries) and one call of the rate-limit-aware wrapper at most 6 attempts
\* (the first and up to 5 retries).
C8_AttemptCeilingsWithFirst ==
    /\ provider \in SimpleRetryProviders => tries <= HTTPMaxRetries + 1
    /\ provider \in APIRetryProviders => tries <= APIMaxRetries + 1

\* the rate-limit-aware wrapper gives up after its sixth attempt
C8_Witness ==
    /\ provider \in APIRetryProviders
    /\ pc = "return"
    /\ tries = APIMaxRetries + 1
    /\ Len(slept) = APIMaxRetries

\* C9: a vendor call answered with HTTP 429 or 5xx is retried: a wrapper call whose last
\* attempt got such an answer returns only when its attempts are used up.
C9_RetriedOn429And5xx ==
    (/\ pc = "return"
     /\ outcomes # <<>>
     /\ (Last(outcomes) = StatusTooManyRequests \/ Last(outcomes) >= 500))
        => tries = MaxRetriesOf(provider) + 1

\* the attempt just made ended with an HTTP 4xx other than 429, or with a transport
\* error that matches no retryable pattern
NonRetryableOutcome ==
    /\ outcomes # <<>>
    /\ \/ Last(outcomes) >= 400 /\ Last(outcomes) < 500 /\ Last(outcomes) # StatusTooManyRequests
       \/ Last(outcomes) = NilResp /\ ~isRetryableError(lastErr)

\* the wrapper handed such an outcome to the codec
NonRetryableReturned ==
    \/ ret.err = NilErr /\ ret.resp >= 400 /\ ret.resp < 500 /\ ret.resp # StatusTooManyRequests
    \/ ret.err # NilErr /\ Len(ret.err) = 1 /\ ~isRetryableError(ret.err)

\* C10: on a non-retryable outcome the wrapper returns at once, with no sleep after that
\* attempt (none at all when it was the first) and no further attempt, and the HTTP
\* client receives a 500.
C10_NonRetryableReturnsAtOnce ==
    /\ NonRetryableOutcome
          => /\ pc = "return"
             /\ Len(outcomes) = tries
             /\ Len(slept) = tries - 1
    /\ (pc = "done" /\ NonRetryableReturned) => w.status = StatusInternalServerError

\* a vendor's HTTP 400 on the first attempt has reached the client as a 500
C10_Witness ==
    /\ pc = "done"
    /\ provider \in APIRetryProviders
    /\ ret = [resp |-> 400, err |-> NilErr]
    /\ w.status = StatusInternalServerError
    /\ w.wroteHeader

\* the wrapper retries on the outcome of the attempt just made
RetryableOutcome ==
    /\ outcomes # <<>>
    /\ \/ Last(outcomes) = NilResp /\ isRetryableError(lastErr)
       \/ /\ provider \in APIRetryProviders
          /\ (Last(outcomes) = StatusTooManyRequests \/ Last(outcomes) >= 500)

\* the error that stands for the outcome of the attempt just made
LastCause ==
    IF Last(outcomes) = StatusTooManyRequests
    THEN <<"rate limit exceeded: status " \o Itoa(Last(outcomes))>>
    ELSE IF Last(outcomes) >= 500 THEN <<"server error: status " \o Itoa(Last(outcomes))>>
    ELSE lastErr

\* the wrapper has used up its attempts, each of which ended with a retryable outcome
AttemptsExhausted ==
    pc = "return" /\ tries = MaxRetriesOf(provider) + 1 /\ RetryableOutcome

\* the wrapper handed the error of exhausted attempts to the codec
ExhaustedReturned == Len(ret.err) = 2 /\ HasPrefix(ret.err[1], "request failed after ")

\* C11: when every attempt fails with a retryable outcome the wrapper returns a non-nil
\* error that wraps the cause of the last attempt, the codec returns an error and no
\* response (whatever response object the wrapper hands back with the error), and the
\* client gets a 500.
C11_ExhaustedRetriesSurface ==
    /\ AttemptsExhausted
          => /\ ret.err # NilErr
             /\ ret.err = Exhausted(MaxRetriesOf(provider), LastCause)
             /\ Last(outcomes) = NilResp => ret.err[2] \in NetErrors
    /\ (Terminal /\ ExhaustedReturned)
          => /\ llm.isNil /\ llm.err # NilErr /\ llm.Choices = <<>>
             /\ pc = "done" => w.status = StatusInternalServerError

\* the wrapper gave up on a transport error while holding the 429 response of an earlier
\* attempt, and the client got a 500
C11_Witness ==
    /\ pc = "done"
    /\ provider \in APIRetryProviders
    /\ ExhaustedReturned
    /\ ret.resp = StatusTooManyRequests
    /\ ret.err[2] \in NetErrors
    /\ w.status = StatusInternalServerError

RECURSIVE Sum(_)
Sum(seq) == IF seq = <<>> THEN 0 ELSE Head(seq) + Sum(Tail(seq))

\* the answers of the scenario: HTTP 429 three times, then HTTP 200
RateLimitedThenOK ==
    <<StatusTooManyRequests, StatusTooManyRequests, StatusTooManyRequests, StatusOK>>

\* C12: when the vendor answers HTTP 429 three times and then HTTP 200, the rate-limit
\* aware wrapper goes on after each 429 and returns the 200 response with no error after
\* exactly four attempts, having slept the rate-limit delays of retry attempts 1, 2 and 3.
C12_RateLimitedThenOK ==
    /\ (provider \in APIRetryProviders /\ outcomes # <<>> /\ Len(outcomes) < 4
            /\ outcomes = SubSeq(RateLimitedThenOK, 1, Len(outcomes)))
          => pc = "retry" /\ tries = Len(outcomes)
    /\ (provider \in APIRetryProviders /\ outcomes = RateLimitedThenOK)
          => /\ pc = "return"
             /\ ret = [resp |-> StatusOK, err |-> NilErr]
             /\ tries = 4
             /\ slept = <<RateLimitBase * 1, RateLimitBase * 2, RateLimitBase * 3>>
             /\ Sum(slept) = 180

\* the wrapper has returned the 200 that followed three 429 answers
C12_Witness ==
    /\ provider \in APIRetryProviders
    /\ outcomes = RateLimitedThenOK
    /\ pc = "return"
    /\ ret.resp = StatusOK

\* C13: within one wrapper call the delays slept before successive retry attempts are
\* non-decreasing, and at every attempt index the rate-limit delay is larger than the
\* generic delay.
C13_DelaysNonDecreasing ==
    /\ \A i \in 1..(Len(slept) - 1) : slept[i] <= slept[i + 1]
    /\ \A a \in 1..APIMaxRetries :
          APIBackoff(a, StatusTooManyRequests) > APIBackoff(a, StatusInternalServerError)

C15_HeadersDelivered ==
    (pc = "done" /\ llm.err = NilErr /\ ~extractWebResponse(llm.Choices).isNil)
        => \A k \in DOMAIN extractWebResponse(llm.Choices).v.Headers :
              /\ k \in DOMAIN w.sent
              /\ w.sent[k] = extractWebResponse(llm.Choices).v.Headers[k]

\* ------------------------------------------- executeToolCall on its own
\* the statements a database call can carry
ToolQueries == {"SELECT 1", "INSERT INTO contacts(name) VALUES (?)", "DROP"}
\* the params lists a database call can carry
ToolParams == {<<>>, <<JStr("Bob")>>}
\* the contents of memory.md before the call
Memories == {"", "note", "note\n"}

\* an argument map with the optional key k present or not
WithOptional(base, k, values) ==
    {base} \cup {[x \in DOMAIN base \cup {k} |-> IF x = k THEN v ELSE base[x]] : v \in values}

\* the argument maps of a database call: query, and optionally mode and params
DatabaseArgs ==
    UNION { UNION { WithOptional(m, "params", {JArr(ps) : ps \in ToolParams})
                    : m \in WithOptional([query |-> JStr(q)], "mode",
                                         {JStr("exec"), JStr("query")}) }
            : q \in ToolQueries }

\* the argument maps of an updateMemory call: content, and optionally mode
MemoryArgs ==
    UNION { WithOptional([content |-> JStr(c)], "mode",
                         {JStr("append"), JStr("rewrite"), JStr("replace")})
            : c \in {"likes blue", ""} }

\* the argument maps of a webResponse call
WebResponseArgs ==
    UNION { WithOptional(m, "contentType", {JStr("text/html")})
            : m \in WithOptional([body |-> JStr("moved")], "statusCode", {JNum(302), JNum(0)}) }

\* the argument maps the model can supply with a call of the tool
ArgsOf(name) ==
    CASE name = "database" -> DatabaseArgs
      [] name = "webResponse" -> WebResponseArgs
      [] name = "updateMemory" -> MemoryArgs
      [] OTHER -> {[x |-> JStr("y")]}

\* the maps executeToolCall can be called with: the arguments under the key arguments,
\* as an object
ToolCallMaps ==
    UNION { {[name |-> JStr(n), arguments |-> JObj(a)] : a \in ArgsOf(n)} : n \in ToolNames }

ToolInit ==
    /\ provider = "anthropic"
    /\ pc = "tool"
    /\ round = 0
    /\ messages = <<>>
    /\ attempt = 0
    /\ tries = 0
    /\ lastResp = NilResp
    /\ lastErr = NilErr
    /\ slept = <<>>
    /\ outcomes = <<>>
    /\ ret = NoRet
    /\ reply = NoReply
    /\ dispatched = <<>>
    /\ webResponse = NilWR
    /\ memory \in Memories
    /\ dbCalls = {}
    /\ llm = NoLLM
    /\ w = NewWriter
    /\ toolCall \in ToolCallMaps
    /\ toolOut = NilResult
    /\ GateIdle
    /\ memCalls = NoMemoryCalls
    /\ render = NoRender

\* one call of executeToolCall(tcMap)
dispatchTool ==
    /\ pc = "tool"
    /\ pc' = "tool done"
    /\ LET r == executeToolCall(toolCall, memory, dbCalls) IN
         /\ toolOut' = r.result
         /\ memory' = r.memory
         /\ dbCalls' = r.dbCalls
    /\ UNCHANGED <<provider, round, messages, attempt, tries, lastResp, lastErr, slept,
                   outcomes, ret, reply, dispatched, webResponse, llm, w, toolCall>>
    /\ UNCHANGED <<gateVars, memCalls, render>>

ToolNext == dispatchTool

ToolSpec == ToolInit /\ [][ToolNext]_vars

\* the arguments of the call under way
CallArgs == toolCall["arguments"].m

\* C16: a database call with mode exec and a non-empty params list is rejected, or its
\* parameters are ignored: no statement is handed to the driver with parameters bound.
C16_ExecIgnoresParams ==
    (/\ pc = "tool done"
     /\ StringField(toolCall, "name") = "database"
     /\ IsStringField(CallArgs, "mode") /\ CallArgs["mode"].s = "exec"
     /\ IsArrayField(CallArgs, "params") /\ CallArgs["params"].a # <<>>)
        => \A c \in dbCalls : c.bound = <<>>

\* ------------------------------------------- tool failures in the Anthropic loop
\* callAnthropic has just decoded the body held in reply
JustDecoded ==
    /\ provider = "anthropic"
    /\ reply # NoReply
    /\ \/ FollowUpBuilt
       \/ pc = "respond" /\ ret.err = NilErr /\ ret.resp = StatusOK

\* the ids of the tool_use blocks of the reply whose execution failed
FailedExecutions ==
    { StringField(reply.content[i], "id") :
        i \in { k \in 1..Len(reply.content) :
                   /\ IsToolUse(reply.content[k])
                   /\ LET r == executeToolCall(reply.content[k], "", {}).result
                      IN r.kind = "database" /\ ~r.Success } }

\* the last message of the request about to be sent carries a tool result for the call
\* id whose content is success=false with an error text
FailureFedBack(id) ==
    /\ Last(messages).role = "user"
    /\ Last(messages).content.kind = "tool_results"
    /\ \E j \in 1..Len(Last(messages).content.results) :
          LET tr == Last(messages).content.results[j]
          IN /\ tr.type = "tool_result"
             /\ tr.tool_use_id = id
             /\ tr.content.marshalled.kind = "database"
             /\ ~tr.content.marshalled.Success
             /\ tr.content.marshalled.Error # ""

GateInit ==
    /\ provider = "anthropic"
    /\ pc = "gate"
    /\ round = 0
    /\ messages = <<>>
    /\ attempt = 0
    /\ tries = 0
    /\ lastResp = NilResp
    /\ lastErr = NilErr
    /\ slept = <<>>
    /\ outcomes = <<>>
    /\ ret = NoRet
    /\ reply = NoReply
    /\ dispatched = <<>>
    /\ webResponse = NilWR
    /\ memory = "note"
    /\ dbCalls = {}
    /\ llm = NoLLM
    /\ w = NewWriter
    /\ toolCall = NilMap
    /\ toolOut = NilResult
    /\ GateIdle
    /\ memCalls = NoMemoryCalls
    /\ render = NoRender

\* the outcomes of client.Do the goroutines see: a retryable transport error, a reply
\* the wrapper hands back, and a server error
GateOutcomes ==
    {o \in DoOutcomes : \/ o.err = <<"connect: connection refused">>
                        \/ o.err = NilErr /\ o.status \in {StatusOK, StatusInternalServerError}}

\* variant of the release that does not record the time of the passage
GateReleaseUnstamped(g) ==
    /\ lastAPICallTime' = lastAPICallTime
    /\ apiCallMutex' = NoWorker
    /\ wpc' = [wpc EXCEPT ![g] = "first"]
    /\ wattempt' = [wattempt EXCEPT ![g] = 0]
    /\ wake' = [wake EXCEPT ![g] = 0]

\* lastAPICallTime = time.Now(); apiCallMutex.Unlock(); the first request is built
GateRelease(g) ==
    /\ lastAPICallTime' = now
    /\ apiCallMutex' = NoWorker
    /\ wpc' = [wpc EXCEPT ![g] = "first"]
    /\ wattempt' = [wattempt EXCEPT ![g] = 0]
    /\ wake' = [wake EXCEPT ![g] = 0]

\* apiCallMutex.Lock(); timeSinceLastCall := time.Since(lastAPICallTime); below
\* minInterval the goroutine enters time.Sleep with the mutex held, otherwise it goes on
\* to the assignment and the Unlock
gateEnter(g) ==
    /\ wpc[g] = "start"
    /\ apiCallMutex = NoWorker
    /\ LET timeSinceLastCall == now - lastAPICallTime IN
         IF timeSinceLastCall < MinInterval
         THEN /\ apiCallMutex' = g
              /\ wpc' = [wpc EXCEPT ![g] = "gate sleep"]
              /\ wake' = [wake EXCEPT ![g] = now + (MinInterval - timeSinceLastCall)]
              /\ UNCHANGED <<lastAPICallTime, wattempt>>
         ELSE GateRelease(g)
    /\ UNCHANGED <<now, outbound>>
    /\ UNCHANGED <<requestVars, toolVars, memCalls, render>>

\* time.Sleep(sleepTime) returns; the assignment and the Unlock follow
gateWake(g) ==
    /\ wpc[g] = "gate sleep"
    /\ now >= wake[g]
    /\ GateRelease(g)
    /\ UNCHANGED <<now, outbound>>
    /\ UNCHANGED <<requestVars, toolVars, memCalls, render>>

\* the kind of the client.Do a goroutine is about to make
CallKind(g) ==
    IF wattempt[g] > 0 THEN "retry" ELSE IF wpc[g] = "first" THEN "first" ELSE "follow-up"

\* the window of the two most recent calls after one more
Record(calls, call) == IF Len(calls) < 2 THEN Append(calls, call) ELSE <<calls[2], call>>

\* doHTTPRequestWithRetry: client.Do(req) goes out at the time of the step, and its
\* outcome is handled: a retryable error sends the goroutine into time.Sleep(backoff), a
\* reply with a tool_use block makes processToolCallsAnthropic build its follow-up
\* request, and everything else ends callAnthropic, after which the goroutine is handed
\* the next inbound request. (The time the call takes only delays what follows, as any
\* step may be delayed.)
ClientDo(g) ==
    /\ outbound' = Record(outbound, [g |-> g, t |-> now, kind |-> CallKind(g)])
    /\ \E o \in GateOutcomes, toolUse \in BOOLEAN :
         LET it == HTTPIteration(o) IN
         IF it.do = "continue" /\ LoopContinues(wattempt[g] + 1, HTTPMaxRetries)
         THEN /\ wattempt' = [wattempt EXCEPT ![g] = @ + 1]
              /\ wake' = [wake EXCEPT ![g] = now + HTTPBackoff(wattempt[g] + 1)]
              /\ wpc' = [wpc EXCEPT ![g] = "backoff"]
         ELSE /\ wpc' = [wpc EXCEPT ![g] =
                            IF it.do = "return" /\ it.err = NilErr /\ it.resp = StatusOK
                               /\ toolUse
                            THEN "follow-up" ELSE "start"]
              /\ wattempt' = [wattempt EXCEPT ![g] = 0]
              /\ wake' = [wake EXCEPT ![g] = 0]
    /\ UNCHANGED <<now, lastAPICallTime, apiCallMutex>>
    /\ UNCHANGED <<requestVars, toolVars, memCalls, render>>

\* the first attempt of a request: the first round's or a follow-up round's
clientDo(g) ==
    /\ wpc[g] \in {"first", "follow-up"}
    /\ ClientDo(g)

\* doHTTPRequestWithRetry: time.Sleep(backoff) returns and the next attempt goes out
retryDo(g) ==
    /\ wpc[g] = "backoff"
    /\ now >= wake[g]
    /\ ClientDo(g)

\* a second passes
Tick ==
    /\ now < MaxClock
    /\ now' = now + 1
    /\ UNCHANGED <<lastAPICallTime, apiCallMutex, wpc, wake, wattempt, outbound>>
    /\ UNCHANGED <<requestVars, toolVars, memCalls, render>>

GateNext ==
    \/ \E g \in Workers : gateEnter(g)
    \/ \E g \in Workers : gateWake(g)
    \/ \E g \in Workers : clientDo(g)
    \/ \E g \in Workers : retryDo(g)
    \/ Tick

GateSpec == GateInit /\ [][GateNext]_vars

\* C18: any two outbound vendor calls (first round, follow-up round or retry attempt,
\* of the same or of different requests) start at least minInterval apart.
C18_OutboundCallsSpaced ==
    Len(outbound) = 2 => outbound[2].t - outbound[1].t >= MinInterval

\* C19: the rate-limiter mutex is not held across a sleep: no goroutine waits for the
\* mutex while the goroutine holding it sleeps.
C19_MutexNotHeldAcrossSleep ==
    \A g, h \in Workers :
        (apiCallMutex = g /\ wpc[g] = "gate sleep") => wpc[h] # "start"

\* ------------------------------------------- malformed replies
\* the codec's last wrapper call handed back an HTTP 200 whose body lacks what the codec
\* decodes: an Anthropic body that is not JSON or has no content list, a Baidu body that
\* is not JSON or has no result, a Spark stream without a single parseable data chunk
MalformedReply ==
    /\ reply # NoReply
    /\ ret.err = NilErr
    /\ ret.resp = StatusOK
    /\ CASE provider = "anthropic" -> ~reply.json \/ ~reply.hasContent
         [] provider = "baidu" -> ~reply.json \/ ~reply.hasResult
         [] provider = "spark" ->
               \A i \in 1..Len(reply.chunks) : reply.chunks[i].kind \in {"invalid", "done"}
         [] OTHER -> FALSE

\* C20: an HTTP 200 from the vendor whose body is malformed or lacks the expected
\* fields is a provider error: the call returns an error and the client gets the 500
\* error page, never a success with empty or canned content.
C20_MalformedReplyFails ==
    (pc = "done" /\ MalformedReply)
        => /\ llm.err # NilErr
           /\ w.status = StatusInternalServerError

\* ------------------------------------------- redirects
\* a webResponse call with status 302 and a Location header among its arguments
IsRedirectCall(item) ==
    /\ IsToolUse(item)
    /\ StringField(item, "name") = "webResponse"
    /\ "input" \in DOMAIN item
    /\ IsNumberField(item["input"].m, "statusCode")
    /\ item["input"].m["statusCode"].n = 302
    /\ "headers" \in DOMAIN item["input"].m
    /\ IsStringField(item["input"].m["headers"].m, "Location")

\* the request has been answered after two rounds: a first reply that held a database
\* call, then a reply, decoded last, that holds a redirect call
RedirectAfterDatabase ==
    /\ provider = "anthropic"
    /\ pc = "done"
    /\ round = 2
    /\ Len(messages) >= 2
    /\ messages[2].content.kind = "blocks"
    /\ \E i \in 1..Len(messages[2].content.blocks) :
          /\ IsToolUse(messages[2].content.blocks[i])
          /\ StringField(messages[2].content.blocks[i], "name") = "database"
    /\ reply # NoReply
    /\ ret.err = NilErr /\ ret.resp = StatusOK
    /\ reply.json /\ reply.hasContent
    /\ \E i \in 1..Len(reply.content) : IsRedirectCall(reply.content[i])

\* C21: when the model, after a database call, emits webResponse with statusCode 302
\* and a Location header, the loop short-circuits and the client receives status 302
\* together with that Location header.
C21_RedirectDelivered ==
    RedirectAfterDatabase
        => /\ ~webResponse.isNil
           /\ w.status = 302
           /\ "Location" \in DOMAIN w.sent
           /\ w.sent["Location"] = "/contacts"

\* ------------------------------------------- unknown tools
\* the tool_use blocks of a content list
ToolUseBlocks(content) == {content[i] : i \in {k \in 1..Len(content) : IsToolUse(content[k])}}

\* a tool_use block whose name is none of the three defined tools
IsUnknownCall(item) ==
    IsToolUse(item) /\ StringField(item, "name") \notin {"database", "webResponse", "updateMemory"}

\* the message list carries, in its last message, a tool result for the call id whose
\* content is the marshalled nil
NilResultFedBack(msgs, id) ==
    /\ Last(msgs).role = "user"
    /\ Last(msgs).content.kind = "tool_results"
    /\ \E j \in 1..Len(Last(msgs).content.results) :
          /\ Last(msgs).content.results[j].type = "tool_result"
          /\ Last(msgs).content.results[j].tool_use_id = id
          /\ Last(msgs).content.results[j].content.marshalled = NilResult

ExtractTexts ==
    {"hi", "<html>ok</html>", "<!DOCTYPE html><p>x</p>", "<HTML>shout</HTML>",
     "{\"statusCode\":404,\"body\":\"nf\"}",
     "{\"statusCode\":404,\"body\":\"<html>nf</html>\"}",
     "{\"statusCode\":\"404\",\"body\":\"nf\"}",
     "{\"page\":\"<html>x</html>\"}"}

\* the choices of an LLMResponse: a role, and a string or no content
ExtractChoices ==
    { Choice(role, content, "stop") :
        role \in {"assistant", "user"},
        content \in {StringContent(t) : t \in ExtractTexts} \cup {NilContent} }

\* callLLM has returned a response without error; HandleLLMRequest is about to use it
ExtractInit ==
    /\ provider = "openai"
    /\ pc = "respond"
    /\ round = 0
    /\ messages = <<>>
    /\ attempt = 0
    /\ tries = 0
    /\ lastResp = NilResp
    /\ lastErr = NilErr
    /\ slept = <<>>
    /\ outcomes = <<>>
    /\ ret = NoRet
    /\ reply = NoReply
    /\ dispatched = <<>>
    /\ webResponse = NilWR
    /\ memory = "note"
    /\ dbCalls = {}
    /\ llm \in { LLMOk(cs) : cs \in UNION { [1..n -> ExtractChoices] : n \in 0..MaxChoices } }
    /\ w = NewWriter
    /\ toolCall = NilMap
    /\ toolOut = NilResult
    /\ GateIdle
    /\ memCalls = NoMemoryCalls
    /\ render = NoRender

ExtractNext == HandleLLMRequest

ExtractSpec == ExtractInit /\ [][ExtractNext]_vars

\* the text parses as a JSON object with a numeric statusCode
IsPromotable(t) == ~UnmarshalFails(t) /\ IsNumberField(UnmarshalObject(t), "statusCode")

\* the text contains one of the two HTML markers
LooksLikeHTML(t) == Contains(t, "<html") \/ Contains(t, "<!DOCTYPE html")

\* the positions of the assistant choices with a text that matches either rule
Matching ==
    { i \in 1..Len(llm.Choices) :
        /\ llm.Choices[i].Role = "assistant"
        /\ llm.Choices[i].Content.kind = "string"
        /\ IsPromotable(llm.Choices[i].Content.s) \/ LooksLikeHTML(llm.Choices[i].Content.s) }

\* the text of the first choice that matches
FirstMatch == llm.Choices[CHOOSE i \in Matching : \A j \in Matching : i <= j].Content.s

C24_MemoryModes ==
    [][(pc = "tool" /\ StringField(toolCall, "name") = "updateMemory")
          => LET content == StringField(CallArgs, "content")
                 mode    == StringField(CallArgs, "mode")
             IN IF mode = "append"
                THEN memory' = memory
                                 \o (IF memory # "" /\ ~HasSuffix(memory, "\n") THEN "\n" ELSE "")
                                 \o content
                ELSE IF mode = "rewrite"
                THEN memory' = content
                ELSE Contains(memory', memory)]_vars

\* ------------------------------------------- backoff schedules
RECURSIVE Pow3(_)
Pow3(n) == IF n = 0 THEN 1 ELSE 3 * Pow3(n - 1)

\* C25: in doAPIRequestWithRetry the sleeps before the retry attempts 1, 2, 3, 4 of a
\* run of rate-limit responses are 30s, 90s, 270s and 810s, and the sleeps of a run of
\* other failures are 1s, 2s, 4s, ...
C25_RateLimitBackoffExponential ==
    provider \in APIRetryProviders
        => \A i \in 1..Len(slept) :
              /\ (\A j \in 1..i : outcomes[j] = StatusTooManyRequests)
                    => slept[i] = RateLimitBase * Pow3(i - 1)
              /\ (\A j \in 1..i : outcomes[j] # StatusTooManyRequests)
                    => slept[i] = Pow2(i - 1)

\* C27: in doAPIRequestWithRetry the sleep before an attempt follows the rate-limit
\* schedule (30s times the attempt number) if and only if the attempt just before it
\* ended with HTTP 429.
C27_ScheduleByPrecedingAttempt ==
    provider \in APIRetryProviders
        => \A i \in 1..Len(slept) :
              (slept[i] = RateLimitBase * i) <=> (outcomes[i] = StatusTooManyRequests)

\* ------------------------------------------- arguments of Anthropic tool calls
\* the arguments the model supplied with a tool_use block
SuppliedInput(item) == IF "input" \in DOMAIN item THEN item["input"].m ELSE NilMap

\* C26: for every tool_use block of the Anthropic reply decoded last, the collaborator
\* has been invoked with the arguments of the block: ExecuteDatabaseQuery with its
\* query, CreateWebResponse with its statusCode, contentType and body, UpdateMemory
\* with its content.
C26_SuppliedArgumentsUsed ==
    (JustDecoded /\ reply.json /\ reply.hasContent)
        => \A i \in 1..Len(reply.content) :
              LET item == reply.content[i]
                  name == StringField(item, "name")
                  input == SuppliedInput(item)
              IN IsToolUse(item)
                    => /\ name = "database"
                          => \E c \in dbCalls : c.query = StringField(input, "query")
                       /\ (name = "webResponse" /\ IsNumberField(input, "statusCode"))
                          => /\ ~webResponse.isNil
                             /\ webResponse.v.StatusCode = input["statusCode"].n
                             /\ webResponse.v.ContentType = StringField(input, "contentType")
                             /\ webResponse.v.Body = StringField(input, "body")
                       /\ name = "updateMemory"
                          => Contains(memory, StringField(input, "content"))

\* ------------------------------------------- passages through the rate limiter
Later(a, b) == IF a >= b THEN a ELSE b

\* The clock has reached MaxClock and one more second passes: the origin of time moves
\* forward by one second instead, so every recorded time is one less. A time that is
\* already minInterval or more in the past stays that far in the past, which leaves the
\* outcome of every comparison the goroutines make as it is.
Elapse ==
    /\ now = MaxClock
    /\ now' = now
    /\ lastAPICallTime' = Later(lastAPICallTime - 1, now - MinInterval)
    /\ wake' = [g \in Workers |-> Later(wake[g] - 1, 0)]
    /\ outbound' =
          IF Len(outbound) = 0 THEN outbound
          ELSE LET last == Later(outbound[Len(outbound)].t - 1, now - MinInterval)
               IN [i \in 1..Len(outbound) |->
                     [outbound[i] EXCEPT !.t = IF i = Len(outbound) THEN last
                                               ELSE Later(@ - 1, last - MinInterval)]]
    /\ UNCHANGED <<apiCallMutex, wpc, wattempt>>
    /\ UNCHANGED <<requestVars, toolVars, memCalls, render>>

PassageNext ==
    \/ \E g \in Workers : gateEnter(g)
    \/ \E g \in Workers : gateWake(g)
    \/ \E g \in Workers : clientDo(g)
    \/ \E g \in Workers : retryDo(g)
    \/ Tick
    \/ Elapse

\* Fair scheduling: time passes; a goroutine whose time.Sleep inside the gate has ended
\* is run; and a goroutine blocked in apiCallMutex.Lock() gets the mutex after finitely
\* many releases (sync.Mutex hands the mutex to the longest waiter once it has waited
\* for more than a millisecond).
PassageSpec ==
    /\ GateInit
    /\ [][PassageNext]_vars
    /\ WF_vars(Tick \/ Elapse)
    /\ \A g \in Workers : SF_vars(gateEnter(g)) /\ WF_vars(gateWake(g))

\* a goroutine is between apiCallMutex.Lock() and apiCallMutex.Unlock()
InGate(g) == wpc[g] = "gate sleep"
\* a step in which a goroutine passes the gate: it records the time and unlocks
Passes(g) == wpc[g] \in {"start", "gate sleep"} /\ wpc'[g] = "first"

\* C28: at most one goroutine is between Lock and Unlock, and it is the holder of the
\* mutex; the time a passage records is at least minInterval after the time the passage
\* before it recorded; and under fair scheduling every goroutine that reaches the gate
\* passes it.
C28_GateSerializedSpacedLive ==
    /\ [](\A g \in Workers : InGate(g) => apiCallMutex = g)
    /\ [](\A g, h \in Workers : (InGate(g) /\ InGate(h)) => g = h)
    /\ [][\A g \in Workers :
             Passes(g) => /\ lastAPICallTime' = now'
                          /\ lastAPICallTime' - lastAPICallTime >= MinInterval
                          /\ apiCallMutex' = NoWorker]_vars
    /\ \A g \in Workers : (wpc[g] = "start") ~> (wpc[g] = "first")

\* a goroutine waits at the gate while another one, which got there first and found the
\* previous passage less than minInterval old, sleeps inside it
C28_Witness ==
    /\ wpc[1] = "start"
    /\ wpc[2] = "gate sleep"
    /\ apiCallMutex = 2
    /\ wake[2] > now
    /\ lastAPICallTime > ZeroTime

\* ------------------------------------------- concurrent updates of the memory store
\* Each inbound request is served by its own goroutine, so two updateMemory calls can be
\* inside tools.UpdateMemory together. Its steps on memory.md are os.ReadFile (mode
\* append only) and os.WriteFile, which opens the file with O_TRUNC and then writes the
\* data at offset 0; nothing orders the steps of one call against those of another.
MemoryContents == {"likes blue", "name: Bob"}
MemoryModes == {"append", "rewrite"}

\* a goroutine entering tools.UpdateMemory(content, mode)
MemoryCall(content, mode) ==
    [pc |-> IF mode = "append" THEN "read" ELSE "open",
     content |-> content, mode |-> mode, existingContent |-> ""]

MemoryInit ==
    /\ provider = "anthropic"
    /\ pc = "memory"
    /\ round = 0
    /\ messages = <<>>
    /\ attempt = 0
    /\ tries = 0
    /\ lastResp = NilResp
    /\ lastErr = NilErr
    /\ slept = <<>>
    /\ outcomes = <<>>
    /\ ret = NoRet
    /\ reply = NoReply
    /\ dispatched = <<>>
    /\ webResponse = NilWR
    /\ memory \in Memories
    /\ dbCalls = {}
    /\ llm = NoLLM
    /\ w = NewWriter
    /\ toolCall = NilMap
    /\ toolOut = NilResult
    /\ GateIdle
    /\ memCalls \in [Workers -> {MemoryCall(c, m) : c \in MemoryContents, m \in MemoryModes}]
    /\ render = NoRender

\* a write of data at offset 0 of a file holding old
WriteAt0(old, data) == data \o SubSeq(old, Len(data) + 1, Len(old))

\* existingBytes, readErr := os.ReadFile(memoryPath)
readFile(g) ==
    /\ memCalls[g].pc = "read"
    /\ memCalls' = [memCalls EXCEPT ![g].existingContent = memory, ![g].pc = "open"]
    /\ UNCHANGED <<requestVars, toolVars, gateVars, render>>

\* os.WriteFile: OpenFile(name, O_WRONLY|O_CREATE|O_TRUNC, perm)
openTrunc(g) ==
    /\ memCalls[g].pc = "open"
    /\ memory' = ""
    /\ memCalls' = [memCalls EXCEPT ![g].pc = "write"]
    /\ UNCHANGED <<provider, pc, round, messages, attempt, tries, lastResp, lastErr, slept,
                   outcomes, ret, reply, dispatched, webResponse, dbCalls, llm, w>>
    /\ UNCHANGED <<toolVars, gateVars, render>>

\* os.WriteFile: f.Write(data); UpdateMemory returns Success
writeFile(g) ==
    /\ memCalls[g].pc = "write"
    /\ memory' = WriteAt0(memory, UpdateMemory(memCalls[g].existingContent,
                                               memCalls[g].content, memCalls[g].mode))
    /\ memCalls' = [memCalls EXCEPT ![g].pc = "done"]
    /\ UNCHANGED <<provider, pc, round, messages, attempt, tries, lastResp, lastErr, slept,
                   outcomes, ret, reply, dispatched, webResponse, dbCalls, llm, w>>
    /\ UNCHANGED <<toolVars, gateVars, render>>

MemoryNext ==
    \/ \E g \in Workers : readFile(g)
    \/ \E g \in Workers : openTrunc(g)
    \/ \E g \in Workers : writeFile(g)

MemorySpec == MemoryInit /\ [][MemoryNext]_vars

\* C29: when two updateMemory calls in mode append have both returned success, the
\* memory store contains the content of both.
C29_NoLostAppend ==
    (\A g \in Workers : memCalls[g].pc = "done" /\ memCalls[g].mode = "append")
        => \A g \in Workers : Contains(memory, memCalls[g].content)

\* ------------------------------------------- the prompt template
RECURSIVE ReplaceAll(_, _, _)
\* strings.ReplaceAll(s, old, new) for a non-empty old: the non-overlapping occurrences
\* of old, left to right; the text put in is not scanned again
ReplaceAll(s, old, new) ==
    IF Len(s) < Len(old) THEN s
    ELSE IF SubSeq(s, 1, Len(old)) = old
    THEN new \o ReplaceAll(SubSeq(s, Len(old) + 1, Len(s)), old, new)
    ELSE SubSeq(s, 1, 1) \o ReplaceAll(SubSeq(s, 2, Len(s)), old, new)

\* fmt.Sprintf("{{%s}}", key)
Placeholder(key) == "{{" \o key \o "}}"

\* json.Marshal of a string without characters that need escaping
MarshalString(str) == "\"" \o str \o "\""

\* prompt.md, cut down to the placeholders of the model
PromptTemplates ==
    {"{{METHOD}} {{PATH}} body {{BODY}} memory {{MEMORY}}",
     "{{METHOD}} {{PATH}}"}
\* request bodies a client can send
RequestBodies == {"hi", "{{MEMORY}}", "{{PATH}}"}
\* request paths
RequestPaths == {"/", "/{{METHOD}}"}
\* contents of memory.md
MemoryTexts == {"note", "see {{BODY}}"}

\* HandleLLMRequest: the variable map
TemplateVars(path, body, mem) ==
    [key \in {"METHOD", "PATH", "BODY", "MEMORY"} |->
        CASE key = "METHOD" -> "GET"
          [] key = "PATH" -> path
          [] key = "BODY" -> MarshalString(body)
          [] key = "MEMORY" -> mem]

PromptInit ==
    /\ provider = "anthropic"
    /\ pc = "prompt"
    /\ round = 0
    /\ messages = <<>>
    /\ attempt = 0
    /\ tries = 0
    /\ lastResp = NilResp
    /\ lastErr = NilErr
    /\ slept = <<>>
    /\ outcomes = <<>>
    /\ ret = NoRet
    /\ reply = NoReply
    /\ dispatched = <<>>
    /\ webResponse = NilWR
    /\ memory = "note"
    /\ dbCalls = {}
    /\ llm = NoLLM
    /\ w = NewWriter
    /\ toolCall = NilMap
    /\ toolOut = NilResult
    /\ GateIdle
    /\ memCalls = NoMemoryCalls
    /\ \E template \in PromptTemplates, path \in RequestPaths, body \in RequestBodies,
          mem \in MemoryTexts :
          render = [pc |-> "range", template |-> template,
                    vars |-> TemplateVars(path, body, mem),
                    result |-> template,
                    pending |-> {"METHOD", "PATH", "BODY", "MEMORY"}]

\* ReplaceTemplateVars: one iteration of `for key, value := range vars`; the order in
\* which range visits the keys of a map is not specified and differs from run to run
replaceVar ==
    /\ render.pc = "range"
    /\ render.pending # {}
    /\ \E key \in render.pending :
          render' = [render EXCEPT
                       !.result = ReplaceAll(@, Placeholder(key), render.vars[key]),
                       !.pending = @ \ {key}]
    /\ UNCHANGED <<requestVars, toolVars, gateVars, memCalls>>

\* ReplaceTemplateVars: return result
returnPrompt ==
    /\ render.pc = "range"
    /\ render.pending = {}
    /\ render' = [render EXCEPT !.pc = "returned"]
    /\ UNCHANGED <<requestVars, toolVars, gateVars, memCalls>>

PromptNext == replaceVar \/ returnPrompt

PromptSpec == PromptInit /\ [][PromptNext]_vars

RECURSIVE ReplaceInOrder(_, _, _)
\* the result when the keys are visited in the order given
ReplaceInOrder(template, tvars, order) ==
    IF order = <<>> THEN template
    ELSE ReplaceInOrder(ReplaceAll(template, Placeholder(Head(order)), tvars[Head(order)]),
                        tvars, Tail(order))

\* C30: the prompt ReplaceTemplateVars returns is a function of the template and the
\* variable map: whatever order the keys were visited in, it is the prompt that visiting
\* them in the order METHOD, PATH, BODY, MEMORY gives.
C30_PromptDeterministic ==
    render.pc = "returned"
        => render.result = ReplaceInOrder(render.template, render.vars,
                                          <<"METHOD", "PATH", "BODY", "MEMORY">>)

====
